---- MODULE Spec2Model ----
(***************************************************************************)
(* Model of the motion-to-gesture engine of the HoloCube firmware          *)
(* (2.Firmware/Holo-fw/src/driver/imu.cpp, imu.h): the orientation         *)
(* transform getVirtureMotion6, the interval-gated IMU::update ("poll"),   *)
(* the history-based IMU::getAction ("sample"), the 5-slot action history  *)
(* and the encoder bridge globals encoder_diff / encoder_state.            *)
(***************************************************************************)
EXTENDS Integers, Sequences, FiniteSets, TLC

(***************************************************************************)
(* Program constants                                                       *)
(***************************************************************************)
ACTION_HISTORY_BUF_LEN == 5
X_DIR_TYPE == 1
Y_DIR_TYPE == 2
Z_DIR_TYPE == 4
XY_DIR_TYPE == 8
TurnThreshold == 4000
LinearThreshold == 5000
ShakeThreshold == 1000
DelayMs == 500
Int16Max == 32767
ConnectTimeout == 5000

ACTIVE_TYPE ==
    {"TURN_RIGHT", "RETURN", "TURN_LEFT", "UP", "DOWN", "GO_FORWORD", "SHAKE", "UNKNOWN"}

LV_INDEV_STATE == {"REL", "PR"}

(***************************************************************************)
(* Bounds of the model                                                     *)
(***************************************************************************)
\* number of operations (calls, latch clears, clock steps) in a run of Spec
MaxOps == 5

\* number of operations in a run of SpecRun, and the clock value up to which
\* time passes between its calls
MaxRunOps == 6
MaxRunNow == 30

\* number of operations in a run of SpecGrid before its call on a threshold
\* reading
MaxGridOps == 4

\* number of operations in a run of SpecStreak and of SpecTally
MaxStreakOps == 13
MaxTallyOps == 5
\* number of init() calls in a run of SpecBoot
MaxBootOps == 2

Raw(x, y) == [ax |-> x, ay |-> y, az |-> 0, gx |-> 0, gy |-> 0, gz |-> 0]

\* raw sensor readings fed to the engine, one for every branch of the
\* threshold cascade: UP, DOWN, at rest, both turns, shake on either axis
RawSamples ==
    {Raw(5500, 0), Raw(-5500, 0), Raw(0, 0), Raw(0, 4500), Raw(0, -4500),
     Raw(0, 2000), Raw(3000, 0)}

\* intervals passed to update(), clock steps between calls, orientations
Intervals == {0, 50}
TickSteps == {30}
OrderVals == {0, 8}

VARIABLES
    action_info,            \* IMU::action_info (active, isValid, long_time, v_*)
    act_info_history,       \* IMU::act_info_history[5], indexed 0..4
    act_info_history_ind,   \* IMU::act_info_history_ind
    order,                  \* IMU::order
    last_update_time,       \* IMU::last_update_time
    encoder_diff,           \* global encoder_diff
    encoder_state,          \* global encoder_state
    now,                    \* millis()
    op,                     \* the operation performed last
    call,                   \* observations of the run: nOps operations so far, nSample
                            \* getAction() calls so far; of the last operation, isValid
                            \* at entry (entryValid) and whether update() passed its
                            \* interval gate (elapsed); of the last getAction(), the
                            \* local tmp_info (tmp) and isHoldDown (hold), and isHoldDown
                            \* of the getAction() before it (prevHold); freshRun counts
                            \* the operations of a run made only of getAction() calls
                            \* reading ax = 5500, ay = 0 (-1 once anything else ran),
                            \* clearedRun the getAction() calls of such a run in which
                            \* the caller clears the latch before every call but the
                            \* first; of the last operation when it is an update(), its
                            \* interval argument, the virtual sample it read first
                            \* (first) and whether it went through delay(500) (waited)
    probe,                  \* a raw reading put through getVirtureMotion6 once and
                            \* twice (SpecTransform only)
    tally                   \* counts over the whole run, kept only when tally.on:
                            \* caller clears, calls that changed action_info.active,
                            \* calls that changed encoder_diff, of the last three
                            \* getAction() calls (recent, oldest first) the
                            \* classification and whether the call was entered
                            \* latched, and downRun, which is clearedRun for
                            \* readings ax = -5500, ay = 0
VARIABLES
    mpu,                    \* IMU::mpu, the sensor: whether initialize() ran on it,
                            \* whether it calibrated itself, its six active offsets
    mpu_cfg,                \* the caller's SysMpuConfig record that init() is handed
    boot                    \* observations of the last init(): its arguments, whether
                            \* the sensor answered during the wait (inLoop) and at the
                            \* test after it (after), the time waited, the record and
                            \* the sensor as they were at entry, the offsets the
                            \* sensor computed, and the steps taken in order (log)

vars == <<action_info, act_info_history, act_info_history_ind, order,
          last_update_time, encoder_diff, encoder_state, now, op, call, probe,
          tally, mpu, mpu_cfg, boot>>

(***************************************************************************)
(* Fixed-width arithmetic                                                  *)
(***************************************************************************)
\* conversion of an int to int16_t (the unary minus is computed in int)
ToInt16(x) ==
    LET m == x % 65536 IN IF m > Int16Max THEN m - 65536 ELSE m

\* "a > b" on 32-bit unsigned values, a and b given as the int32 values with
\* the same bit pattern (a negative int converts to a value above 2^31 - 1)
UnsignedGreater(a, b) ==
    IF (a < 0) = (b < 0) THEN a > b ELSE a < 0

\* bit test "order & flag" for a one-bit flag
HasFlag(ord, flag) == (ord \div flag) % 2 = 1

(***************************************************************************)
(* IMU::getVirtureMotion6: raw reading -> virtual sample                   *)
(***************************************************************************)
InvertX(s, ord) ==
    IF HasFlag(ord, X_DIR_TYPE)
    THEN [s EXCEPT !.ax = ToInt16(-s.ax), !.gx = ToInt16(-s.gx)]
    ELSE s

InvertY(s, ord) ==
    IF HasFlag(ord, Y_DIR_TYPE)
    THEN [s EXCEPT !.ay = ToInt16(-s.ay), !.gy = ToInt16(-s.gy)]
    ELSE s

InvertZ(s, ord) ==
    IF HasFlag(ord, Z_DIR_TYPE)
    THEN [s EXCEPT !.az = ToInt16(-s.az), !.gz = ToInt16(-s.gz)]
    ELSE s

\* variant: only the accelerometer axes are exchanged
SwapXY_AccelOnly(s, ord) ==
    IF HasFlag(ord, XY_DIR_TYPE)
    THEN [s EXCEPT !.ax = s.ay, !.ay = s.ax]
    ELSE s

SwapXY(s, ord) ==
    IF HasFlag(ord, XY_DIR_TYPE)
    THEN [s EXCEPT !.ax = s.ay, !.ay = s.ax, !.gx = s.gy, !.gy = s.gx]
    ELSE s

\* variant: the axes are exchanged before the inversions
getVirtureMotion6_SwapFirst(raw, ord) ==
    InvertZ(InvertY(InvertX(SwapXY(raw, ord), ord), ord), ord)

getVirtureMotion6(raw, ord) ==
    SwapXY(InvertZ(InvertY(InvertX(raw, ord), ord), ord), ord)

\* variant: the virtual sample is not stored
StoreMotion_Keep(a, v) == a

\* the v_* fields of an ImuAction overwritten with a virtual sample
StoreMotion(a, v) ==
    [a EXCEPT !.v_ax = v.ax, !.v_ay = v.ay, !.v_az = v.az,
              !.v_gx = v.gx, !.v_gy = v.gy, !.v_gz = v.gz]

(***************************************************************************)
(* IMU::getAction: instantaneous classification of the local tmp_info      *)
(***************************************************************************)
\* rotation stage, imu.cpp 223-237
GetActionRotation(tmp_ay) ==
    IF tmp_ay > TurnThreshold THEN "TURN_LEFT"
    ELSE IF tmp_ay < -TurnThreshold THEN "TURN_RIGHT"
    ELSE IF tmp_ay > ShakeThreshold \/ tmp_ay < -ShakeThreshold THEN "SHAKE"
    ELSE "UNKNOWN"

\* linear stage, imu.cpp 240-254: the SHAKE test reads action_info.v_ax (the
\* member written by the last update()), not tmp_info.v_ax
GetActionLinear(tmp_ax, member_ax) ==
    IF tmp_ax > LinearThreshold THEN "UP"
    ELSE IF tmp_ax < -LinearThreshold THEN "DOWN"
    ELSE IF member_ax > ShakeThreshold \/ member_ax < -ShakeThreshold THEN "SHAKE"
    ELSE "UNKNOWN"

GetActionClassify(tmp_ax, tmp_ay, member_ax) ==
    LET rot == GetActionRotation(tmp_ay)
    IN  IF rot = "UNKNOWN" THEN GetActionLinear(tmp_ax, member_ax) ELSE rot

(***************************************************************************)
(* IMU::getAction: history ring buffer and long-press detection            *)
(***************************************************************************)
\* variant: the write index advances by two slots
NextHistoryInd_Skip(ind) == (ind + 2) % ACTION_HISTORY_BUF_LEN

NextHistoryInd(ind) == (ind + 1) % ACTION_HISTORY_BUF_LEN

Second(index) == (index + ACTION_HISTORY_BUF_LEN - 1) % ACTION_HISTORY_BUF_LEN

\* variant: the third slot compared is the one three calls back
Third_Stale(index) == (index + ACTION_HISTORY_BUF_LEN - 3) % ACTION_HISTORY_BUF_LEN

Third(index) == (index + ACTION_HISTORY_BUF_LEN - 2) % ACTION_HISTORY_BUF_LEN

\* variant: the classification is written one slot behind the write index
AppendHistory_PrevSlot(hist, index, kind) == [hist EXCEPT ![Second(index)] = kind]

AppendHistory(hist, index, kind) == [hist EXCEPT ![index] = kind]

\* variant: the classification is latched also when it is UNKNOWN
ShortPress_Always(a, kind) == [a EXCEPT !.isValid = TRUE, !.active = kind]

\* variant: a short press marks the event as not sustained
ShortPress_NotSustained(a, kind) ==
    IF kind # "UNKNOWN"
    THEN [a EXCEPT !.isValid = TRUE, !.active = kind, !.long_time = FALSE]
    ELSE a

\* imu.cpp 269-273
ShortPress(a, kind) ==
    IF kind # "UNKNOWN" THEN [a EXCEPT !.isValid = TRUE, !.active = kind] ELSE a

\* variant: only the two newest slots are compared
ThreeEqual_TwoSlots(hist, index) == hist[index] = hist[Second(index)]

\* imu.cpp 276-277
ThreeEqual(hist, index) ==
    /\ hist[index] = hist[Second(index)]
    /\ hist[Second(index)] = hist[Third(index)]

\* imu.cpp 276-290: the value of the local isHoldDown
HoldDown(hist, index, kind) ==
    ThreeEqual(hist, index) /\ kind \in {"UP", "DOWN"}

\* imu.cpp 279-290
LongPress(a, kind) ==
    IF kind = "UP" THEN [a EXCEPT !.isValid = TRUE, !.active = "GO_FORWORD"]
    ELSE IF kind = "DOWN" THEN [a EXCEPT !.isValid = TRUE, !.active = "RETURN"]
    ELSE a

\* variant: only the slot before the current one is reset
ClearHistory_OnlySecond(hist, index) == [hist EXCEPT ![Second(index)] = "UNKNOWN"]

\* variant: only the slot two before the current one is reset
ClearHistory_OnlyThird(hist, index) == [hist EXCEPT ![Third(index)] = "UNKNOWN"]

\* variant: the current slot is reset with the two older ones
ClearHistory_WithCurrent(hist, index) ==
    [hist EXCEPT ![index] = "UNKNOWN", ![Second(index)] = "UNKNOWN",
                 ![Third(index)] = "UNKNOWN"]

\* variant: nothing is reset after a long press
ClearHistory_None(hist, index) == hist

\* imu.cpp 292-297
ClearHistory(hist, index) ==
    [hist EXCEPT ![Second(index)] = "UNKNOWN", ![Third(index)] = "UNKNOWN"]

\* variant: the sequence is processed although the event is latched
ProcessSequence_NoLatchGuard(a, hist, index, kind) ==
    LET a1 == ShortPress(a, kind)
        hold == HoldDown(hist, index, kind)
    IN  [a    |-> IF hold THEN LongPress(a1, kind) ELSE a1,
         hist |-> IF hold THEN ClearHistory(hist, index) ELSE hist,
         hold |-> hold]

\* variant: a long press is logged in the current slot as GO_FORWORD / RETURN
ProcessSequence_LogPromoted(a, hist, index, kind) ==
    IF a.isValid
    THEN [a |-> a, hist |-> hist, hold |-> FALSE]
    ELSE LET a1 == ShortPress(a, kind)
             hold == HoldDown(hist, index, kind)
             a2 == IF hold THEN LongPress(a1, kind) ELSE a1
         IN  [a    |-> a2,
              hist |-> IF hold
                       THEN [ClearHistory(hist, index) EXCEPT ![index] = a2.active]
                       ELSE hist,
              hold |-> hold]

\* variant: a latched call resets the older slots of three equal UP or DOWN
ProcessSequence_ScrubLatched(a, hist, index, kind) ==
    LET a1 == ShortPress(a, kind)
        hold == HoldDown(hist, index, kind)
    IN  IF a.isValid
        THEN [a |-> a, hist |-> IF hold THEN ClearHistory(hist, index) ELSE hist,
              hold |-> FALSE]
        ELSE [a    |-> IF hold THEN LongPress(a1, kind) ELSE a1,
              hist |-> IF hold THEN ClearHistory(hist, index) ELSE hist,
              hold |-> hold]

\* imu.cpp 262-299: [a |-> action_info, hist |-> history, hold |-> isHoldDown]
ProcessSequence(a, hist, index, kind) ==
    IF a.isValid
    THEN [a |-> a, hist |-> hist, hold |-> FALSE]
    ELSE LET a1 == ShortPress(a, kind)
             hold == HoldDown(hist, index, kind)
         IN  [a    |-> IF hold THEN LongPress(a1, kind) ELSE a1,
              hist |-> IF hold THEN ClearHistory(hist, index) ELSE hist,
              hold |-> hold]

(***************************************************************************)
(* IMU::update: interval gate, rotation stage, linear stage                *)
(***************************************************************************)
\* variant: the gate also passes when exactly the interval has gone by
Elapsed_Inclusive(t, last, interval) == ~UnsignedGreater(interval, t - last)

\* imu.cpp 134: millis() is unsigned long, last_update_time long and interval
\* int, so the comparison is made on 32-bit unsigned values (the model's clock
\* stays far below 2^31, so t - last itself does not wrap)
Elapsed(t, last, interval) == UnsignedGreater(t - last, interval)

\* variant: the rotation stage runs although the event is latched
UpdateRotation_NoLatchGuard(a, enc) ==
    IF a.v_ay > TurnThreshold
    THEN [a |-> [a EXCEPT !.isValid = TRUE, !.active = "TURN_LEFT"],
          enc |-> enc - 1]
    ELSE IF a.v_ay < -TurnThreshold
    THEN [a |-> [a EXCEPT !.isValid = TRUE, !.active = "TURN_RIGHT"],
          enc |-> enc + 1]
    ELSE IF a.v_ay > ShakeThreshold \/ a.v_ay < -ShakeThreshold
    THEN [a |-> [a EXCEPT !.isValid = TRUE, !.active = "SHAKE"],
          enc |-> enc - 1]
    ELSE [a |-> a, enc |-> enc]

\* variant: a SHAKE on the rotation axis does not move the counter
UpdateRotation_ShakeNoCount(a, enc) ==
    IF a.isValid THEN [a |-> a, enc |-> enc]
    ELSE IF a.v_ay > TurnThreshold
    THEN [a |-> [a EXCEPT !.isValid = TRUE, !.active = "TURN_LEFT"],
          enc |-> enc - 1]
    ELSE IF a.v_ay < -TurnThreshold
    THEN [a |-> [a EXCEPT !.isValid = TRUE, !.active = "TURN_RIGHT"],
          enc |-> enc + 1]
    ELSE IF a.v_ay > ShakeThreshold \/ a.v_ay < -ShakeThreshold
    THEN [a |-> [a EXCEPT !.isValid = TRUE, !.active = "SHAKE"],
          enc |-> enc]
    ELSE [a |-> [a EXCEPT !.isValid = FALSE], enc |-> enc]

\* variant: the rotation thresholds are inclusive
UpdateRotation_Inclusive(a, enc) ==
    IF a.isValid THEN [a |-> a, enc |-> enc]
    ELSE IF a.v_ay >= TurnThreshold
    THEN [a |-> [a EXCEPT !.isValid = TRUE, !.active = "TURN_LEFT"],
          enc |-> enc - 1]
    ELSE IF a.v_ay <= -TurnThreshold
    THEN [a |-> [a EXCEPT !.isValid = TRUE, !.active = "TURN_RIGHT"],
          enc |-> enc + 1]
    ELSE IF a.v_ay >= ShakeThreshold \/ a.v_ay <= -ShakeThreshold
    THEN [a |-> [a EXCEPT !.isValid = TRUE, !.active = "SHAKE"],
          enc |-> enc - 1]
    ELSE [a |-> [a EXCEPT !.isValid = FALSE], enc |-> enc]

\* imu.cpp 137-162: [a |-> action_info, enc |-> encoder_diff]
UpdateRotation(a, enc) ==
    IF a.isValid THEN [a |-> a, enc |-> enc]
    ELSE IF a.v_ay > TurnThreshold
    THEN [a |-> [a EXCEPT !.isValid = TRUE, !.active = "TURN_LEFT"],
          enc |-> enc - 1]
    ELSE IF a.v_ay < -TurnThreshold
    THEN [a |-> [a EXCEPT !.isValid = TRUE, !.active = "TURN_RIGHT"],
          enc |-> enc + 1]
    ELSE IF a.v_ay > ShakeThreshold \/ a.v_ay < -ShakeThreshold
    THEN [a |-> [a EXCEPT !.isValid = TRUE, !.active = "SHAKE"],
          enc |-> enc - 1]
    ELSE [a |-> [a EXCEPT !.isValid = FALSE], enc |-> enc]

\* variant: only a lift is confirmed by a second reading
UpdateWaits_UpOnly(a) == ~a.isValid /\ a.v_ax > LinearThreshold

\* variant: the linear stage looks at v_ax whatever the rotation stage found
UpdateWaits_AnyRotation(a) ==
    a.v_ax > LinearThreshold \/ a.v_ax < -LinearThreshold

\* imu.cpp 165-168, 180: the linear stage enters delay(500) and reads again
UpdateWaits(a) ==
    ~a.isValid /\ (a.v_ax > LinearThreshold \/ a.v_ax < -LinearThreshold)

\* variant: GO_FORWORD is latched without looking at the second reading
UpdateUp_Unconfirmed(a, st, v2) ==
    LET a1 == StoreMotion([a EXCEPT !.isValid = TRUE, !.active = "UP"], v2)
    IN  [a |-> [a1 EXCEPT !.isValid = TRUE, !.active = "GO_FORWORD"], st |-> "PR"]

\* variant: GO_FORWORD is latched without touching encoder_state
UpdateUp_NoPress(a, st, v2) ==
    LET a1 == StoreMotion([a EXCEPT !.isValid = TRUE, !.active = "UP"], v2)
    IN  IF a1.v_ax > LinearThreshold
        THEN [a |-> [a1 EXCEPT !.isValid = TRUE, !.active = "GO_FORWORD"], st |-> st]
        ELSE [a |-> a1, st |-> st]

\* imu.cpp 167-179: v2 is the virtual sample read after the delay
UpdateUp(a, st, v2) ==
    LET a1 == StoreMotion([a EXCEPT !.isValid = TRUE, !.active = "UP"], v2)
    IN  IF a1.v_ax > LinearThreshold
        THEN [a |-> [a1 EXCEPT !.isValid = TRUE, !.active = "GO_FORWORD"], st |-> "PR"]
        ELSE [a |-> a1, st |-> st]

\* imu.cpp 180-192
UpdateDown(a, st, v2) ==
    LET a1 == StoreMotion([a EXCEPT !.isValid = TRUE, !.active = "DOWN"], v2)
    IN  IF a1.v_ax < -LinearThreshold
        THEN [a |-> [a1 EXCEPT !.isValid = TRUE, !.active = "RETURN"], st |-> "REL"]
        ELSE [a |-> a1, st |-> st]

\* variant: the linear stage runs although the event is latched
UpdateLinear_NoLatchGuard(a, st, v2) ==
    IF a.v_ax > LinearThreshold THEN UpdateUp(a, st, v2)
    ELSE IF a.v_ax < -LinearThreshold THEN UpdateDown(a, st, v2)
    ELSE IF a.v_ax > ShakeThreshold \/ a.v_ax < -ShakeThreshold
    THEN [a |-> [a EXCEPT !.isValid = TRUE, !.active = "SHAKE"], st |-> st]
    ELSE [a |-> [a EXCEPT !.isValid = FALSE], st |-> st]

\* imu.cpp 165-203: [a |-> action_info, st |-> encoder_state]
UpdateLinear(a, st, v2) ==
    IF a.isValid THEN [a |-> a, st |-> st]
    ELSE IF a.v_ax > LinearThreshold THEN UpdateUp(a, st, v2)
    ELSE IF a.v_ax < -LinearThreshold THEN UpdateDown(a, st, v2)
    ELSE IF a.v_ax > ShakeThreshold \/ a.v_ax < -ShakeThreshold
    THEN [a |-> [a EXCEPT !.isValid = TRUE, !.active = "SHAKE"], st |-> st]
    ELSE [a |-> [a EXCEPT !.isValid = FALSE], st |-> st]

(***************************************************************************)
(* Initial state: the global IMU object after its constructor              *)
(***************************************************************************)
NoTmp == [v_ax |-> 0, v_ay |-> 0, active |-> "UNKNOWN"]

NoReading == [ax |-> 0, ay |-> 0]

Constructed ==
    /\ action_info = [active |-> "UNKNOWN", isValid |-> FALSE, long_time |-> TRUE,
                      v_ax |-> 0, v_ay |-> 0, v_az |-> 0,
                      v_gx |-> 0, v_gy |-> 0, v_gz |-> 0]
    /\ act_info_history = [pos \in 0 .. ACTION_HISTORY_BUF_LEN - 1 |-> "UNKNOWN"]
    /\ act_info_history_ind = ACTION_HISTORY_BUF_LEN - 1
    /\ last_update_time = 0
    /\ encoder_diff = 0
    /\ encoder_state = "REL"
    /\ now = 0
    /\ op = "construct"
    /\ call = [nOps |-> 0, nSample |-> 0, entryValid |-> FALSE, elapsed |-> FALSE,
               tmp |-> NoTmp, hold |-> FALSE, prevHold |-> FALSE, freshRun |-> 0,
               clearedRun |-> 0, interval |-> 0, first |-> NoReading, waited |-> FALSE]

NoProbe == [raw |-> Raw(0, 0), once |-> Raw(0, 0), twice |-> Raw(0, 0), applied |-> 0]

NoSample == [kind |-> "none", latched |-> FALSE]

NoTally == [on |-> FALSE, clears |-> 0, kindChanges |-> 0, encChanges |-> 0,
            recent |-> <<NoSample, NoSample, NoSample>>, downRun |-> 0]

\* a SysMpuConfig record, imu.h 59-68
Offsets(xg, yg, zg, xa, ya, za) ==
    [x_gyro_offset |-> xg, y_gyro_offset |-> yg, z_gyro_offset |-> zg,
     x_accel_offset |-> xa, y_accel_offset |-> ya, z_accel_offset |-> za]

NoOffsets == Offsets(0, 0, 0, 0, 0, 0)

\* the sensor before any init(): not initialized, no offsets written to it
NoMpu == [initialized |-> FALSE, calibrated |-> FALSE, offsets |-> NoOffsets]

NoBoot == [called |-> FALSE, order |-> 0, auto_calibration |-> 0,
           inLoop |-> FALSE, after |-> FALSE, waited |-> 0,
           cfgBefore |-> NoOffsets, mpuBefore |-> NoMpu, computed |-> NoOffsets,
           log |-> << >>]

\* init() has not run
Unbooted ==
    /\ mpu = NoMpu
    /\ mpu_cfg = NoOffsets
    /\ boot = NoBoot

Init ==
    /\ Constructed
    /\ order = 0
    /\ probe = NoProbe
    /\ tally = NoTally
    /\ Unbooted

(***************************************************************************)
(* Operations                                                              *)
(***************************************************************************)
\* what an operation other than getAction() records about itself
ObservedPoll(name, gate, interval, first, waited) ==
    /\ op' = name
    /\ call' = [call EXCEPT !.nOps = @ + 1, !.entryValid = action_info.isValid,
                            !.elapsed = gate, !.tmp = NoTmp, !.freshRun = -1,
                            !.clearedRun = IF name = "clear" /\ op = "getAction"
                                           THEN @ ELSE -1,
                            !.interval = interval, !.first = first, !.waited = waited]
    /\ tally' = IF ~tally.on THEN tally
                ELSE [tally EXCEPT
                         !.clears = IF name = "clear" THEN @ + 1 ELSE @,
                         !.kindChanges = IF action_info'.active # action_info.active
                                         THEN @ + 1 ELSE @,
                         !.encChanges = IF encoder_diff' # encoder_diff
                                        THEN @ + 1 ELSE @,
                         !.downRun = IF name = "clear" /\ op = "getAction"
                                     THEN @ ELSE -1]
    /\ UNCHANGED <<probe, mpu, mpu_cfg, boot>>

Observed(name, gate) == ObservedPoll(name, gate, 0, NoReading, FALSE)

\* IMU::update(interval) reading raw1 and, after the delay, raw2
update(interval, raw1, raw2) ==
    LET v1  == getVirtureMotion6(raw1, order)
        a0  == StoreMotion(action_info, v1)
        rot == UpdateRotation(a0, encoder_diff)
        lin == UpdateLinear(rot.a, encoder_state, getVirtureMotion6(raw2, order))
        end == IF UpdateWaits(rot.a) THEN now + DelayMs ELSE now
    IN  /\ IF Elapsed(now, last_update_time, interval)
           THEN /\ action_info' = lin.a
                /\ encoder_diff' = rot.enc
                /\ encoder_state' = lin.st
                /\ now' = end
                /\ last_update_time' = end
           ELSE /\ action_info' = a0
                /\ UNCHANGED <<encoder_diff, encoder_state, now, last_update_time>>
        /\ ObservedPoll("update", Elapsed(now, last_update_time, interval), interval,
                        [ax |-> v1.ax, ay |-> v1.ay],
                        Elapsed(now, last_update_time, interval) /\ UpdateWaits(rot.a))
        /\ UNCHANGED <<act_info_history, act_info_history_ind, order>>

\* an update() call reads the sensor a second time only after the delay
ReadsTwice(interval, raw1) ==
    /\ Elapsed(now, last_update_time, interval)
    /\ UpdateWaits(UpdateRotation(
           StoreMotion(action_info, getVirtureMotion6(raw1, order)), encoder_diff).a)

SecondReadings(interval, raw1) ==
    IF ReadsTwice(interval, raw1) THEN RawSamples ELSE {raw1}

\* variant: a promotion to GO_FORWORD also sets encoder_state to pressed
getAction_Pressing(raw) ==
    LET v     == getVirtureMotion6(raw, order)
        kind  == GetActionClassify(v.ax, v.ay, action_info.v_ax)
        index == NextHistoryInd(act_info_history_ind)
        hist  == AppendHistory(act_info_history, index, kind)
        res   == ProcessSequence(action_info, hist, index, kind)
    IN  /\ act_info_history_ind' = index
        /\ act_info_history' = res.hist
        /\ action_info' = res.a
        /\ op' = "getAction"
        /\ call' = [call EXCEPT !.nOps = @ + 1, !.nSample = @ + 1,
                                !.entryValid = action_info.isValid,
                                !.elapsed = FALSE, !.interval = 0,
                                !.first = NoReading, !.waited = FALSE,
                                !.tmp = [v_ax |-> v.ax, v_ay |-> v.ay, active |-> kind],
                                !.hold = res.hold, !.prevHold = call.hold,
                                !.freshRun = IF @ >= 0 /\ v.ax = 5500 /\ v.ay = 0
                                             THEN @ + 1 ELSE -1,
                                !.clearedRun =
                                    IF /\ @ >= 0 /\ v.ax = 5500 /\ v.ay = 0
                                       /\ op \in {"construct", "clear"}
                                    THEN @ + 1 ELSE -1]
        /\ tally' = IF ~tally.on THEN tally
                    ELSE [tally EXCEPT
                             !.kindChanges = IF res.a.active # action_info.active
                                             THEN @ + 1 ELSE @,
                             !.recent = <<@[2], @[3],
                                          [kind |-> kind,
                                           latched |-> action_info.isValid]>>,
                             !.downRun =
                                 IF /\ @ >= 0 /\ v.ax = -5500 /\ v.ay = 0
                                    /\ op \in {"construct", "clear"}
                                 THEN @ + 1 ELSE -1]
        /\ encoder_state' = IF res.hold /\ kind = "UP" THEN "PR" ELSE encoder_state
        /\ UNCHANGED <<order, last_update_time, encoder_diff, now, probe,
                       mpu, mpu_cfg, boot>>

\* IMU::getAction() reading raw
getAction(raw) ==
    LET v     == getVirtureMotion6(raw, order)
        kind  == GetActionClassify(v.ax, v.ay, action_info.v_ax)
        index == NextHistoryInd(act_info_history_ind)
        hist  == AppendHistory(act_info_history, index, kind)
        res   == ProcessSequence(action_info, hist, index, kind)
    IN  /\ act_info_history_ind' = index
        /\ act_info_history' = res.hist
        /\ action_info' = res.a
        /\ op' = "getAction"
        /\ call' = [call EXCEPT !.nOps = @ + 1, !.nSample = @ + 1,
                                !.entryValid = action_info.isValid,
                                !.elapsed = FALSE, !.interval = 0,
                                !.first = NoReading, !.waited = FALSE,
                                !.tmp = [v_ax |-> v.ax, v_ay |-> v.ay, active |-> kind],
                                !.hold = res.hold, !.prevHold = call.hold,
                                !.freshRun = IF @ >= 0 /\ v.ax = 5500 /\ v.ay = 0
                                             THEN @ + 1 ELSE -1,
                                !.clearedRun =
                                    IF /\ @ >= 0 /\ v.ax = 5500 /\ v.ay = 0
                                       /\ op \in {"construct", "clear"}
                                    THEN @ + 1 ELSE -1]
        /\ tally' = IF ~tally.on THEN tally
                    ELSE [tally EXCEPT
                             !.kindChanges = IF res.a.active # action_info.active
                                             THEN @ + 1 ELSE @,
                             !.recent = <<@[2], @[3],
                                          [kind |-> kind,
                                           latched |-> action_info.isValid]>>,
                             !.downRun =
                                 IF /\ @ >= 0 /\ v.ax = -5500 /\ v.ay = 0
                                    /\ op \in {"construct", "clear"}
                                 THEN @ + 1 ELSE -1]
        /\ UNCHANGED <<order, last_update_time, encoder_diff, encoder_state, now, probe,
                       mpu, mpu_cfg, boot>>

\* IMU::setOrder(order)
setOrder(ord) ==
    /\ order' = ord
    /\ UNCHANGED <<action_info, act_info_history, act_info_history_ind,
                   last_update_time, encoder_diff, encoder_state, now>>
    /\ Observed("setOrder", FALSE)

\* the caller consumes the event: it resets the public action_info.isValid
ClearLatch ==
    /\ action_info.isValid
    /\ action_info' = [action_info EXCEPT !.isValid = FALSE]
    /\ UNCHANGED <<act_info_history, act_info_history_ind, order,
                   last_update_time, encoder_diff, encoder_state, now>>
    /\ Observed("clear", FALSE)

\* time passes between two calls of the polling loop
Tick(d) ==
    /\ now' = now + d
    /\ UNCHANGED <<action_info, act_info_history, act_info_history_ind, order,
                   last_update_time, encoder_diff, encoder_state>>
    /\ Observed("tick", FALSE)

\* every operation, on every reading, in runs of at most MaxOps operations
Next ==
    \/ /\ call.nOps < MaxOps
       /\ \E interval \in Intervals, raw1 \in RawSamples :
              \E raw2 \in SecondReadings(interval, raw1) : update(interval, raw1, raw2)
    \/ /\ call.nOps < MaxOps
       /\ \E raw \in RawSamples : getAction(raw)
    \/ /\ call.nOps < MaxOps
       /\ \E ord \in OrderVals : setOrder(ord)
    \/ /\ call.nOps < MaxOps
       /\ ClearLatch
    \/ /\ call.nOps < MaxOps
       /\ \E d \in TickSteps : Tick(d)

Spec == Init /\ [][Next]_vars

\* longer runs of getAction() calls and latch clears, in the default
\* orientation, with update(0) calls that read a shake or a lift on the
\* linear axis
RunPollSamples == {Raw(3000, 0), Raw(5500, 0)}

NextRun ==
    \/ /\ call.nOps < MaxRunOps
       /\ \E raw \in RawSamples : getAction(raw)
    \/ /\ call.nOps < MaxRunOps
       /\ ClearLatch
    \/ /\ call.nOps < MaxRunOps
       /\ now < MaxRunNow
       /\ \E d \in TickSteps : Tick(d)
    \/ /\ call.nOps < MaxRunOps
       /\ \E raw1 \in RunPollSamples :
              \E raw2 \in SecondReadings(0, raw1) \cap RunPollSamples :
                  update(0, raw1, raw2)

SpecRun == Init /\ [][NextRun]_vars

(***************************************************************************)
(* The thresholds: a short run in the default orientation, then one call   *)
(* on a reading at, just inside or beyond a threshold of either axis       *)
(***************************************************************************)
GridAx == {-5500, -5000, -1000, 0, 1000, 5000, 5500}

GridAy == {-4500, -4000, -1000, 0, 1000, 4000, 4500}

GridSamples == {Raw(x, y) : x \in GridAx, y \in GridAy}

\* what the sensor reads after the delay
GridSecondSamples ==
    {Raw(5500, 4500), Raw(5500, 0), Raw(5000, 0),
     Raw(-5500, -4500), Raw(-5500, 0), Raw(-5000, 0)}

\* an interval equal to one tick, a zero and a negative one
GridIntervals == {-1, 0, 30}

GridRunSamples == {Raw(5500, 0), Raw(0, 4500)}

NextGrid ==
    \/ /\ call.nOps < MaxGridOps
       /\ \E d \in TickSteps : Tick(d)
    \/ /\ call.nOps < MaxGridOps
       /\ \E raw \in GridRunSamples : getAction(raw)
    \/ /\ call.nOps < MaxGridOps
       /\ ClearLatch
    \/ /\ call.nOps < MaxGridOps
       /\ \E raw \in GridRunSamples : update(0, raw, raw)
    \/ /\ call.nOps = MaxGridOps
       /\ \E interval \in GridIntervals, raw1 \in GridSamples :
              \E raw2 \in IF ReadsTwice(interval, raw1)
                          THEN GridSecondSamples ELSE {raw1} :
                  update(interval, raw1, raw2)
    \/ /\ call.nOps = MaxGridOps
       /\ \E raw \in GridSamples : getAction(raw)

SpecGrid == Init /\ [][NextGrid]_vars

(***************************************************************************)
(* Runs with the counts of tally kept                                      *)
(***************************************************************************)
InitTally ==
    /\ Constructed
    /\ order = 0
    /\ probe = NoProbe
    /\ tally = [NoTally EXCEPT !.on = TRUE]
    /\ Unbooted

\* long runs of getAction() calls on a lift or a drop, and latch clears
StreakSamples == {Raw(5500, 0), Raw(-5500, 0)}

NextStreak ==
    \/ /\ call.nOps < MaxStreakOps
       /\ \E raw \in StreakSamples : getAction(raw)
    \/ /\ call.nOps < MaxStreakOps
       /\ ClearLatch

SpecStreak == InitTally /\ [][NextStreak]_vars

\* short runs of every operation on a lift, a drop, both turns and rest
TallySamples == {Raw(5500, 0), Raw(-5500, 0), Raw(0, 4500), Raw(0, -4500), Raw(0, 0)}

NextTally ==
    \/ /\ call.nOps < MaxTallyOps
       /\ \E raw1 \in TallySamples :
              \E raw2 \in SecondReadings(0, raw1) \cap TallySamples :
                  update(0, raw1, raw2)
    \/ /\ call.nOps < MaxTallyOps
       /\ \E raw \in TallySamples : getAction(raw)
    \/ /\ call.nOps < MaxTallyOps
       /\ ClearLatch
    \/ /\ call.nOps < MaxTallyOps
       /\ \E d \in TickSteps : Tick(d)

SpecTally == InitTally /\ [][NextTally]_vars

(***************************************************************************)
(* getVirtureMotion6 as a function: every orientation, readings that tell  *)
(* the six axes apart and include the extreme value of each                *)
(***************************************************************************)
OrientationConfigs == 0 .. (X_DIR_TYPE + Y_DIR_TYPE + Z_DIR_TYPE + XY_DIR_TYPE)

TransformSamples ==
    [ax : {-32768, 7, 5500}, ay : {-32768, 11, -4500}, az : {-32768, 13},
     gx : {-32768, 17}, gy : {32767, 19}, gz : {-32768, 23}]

\* the engine after setOrder(order), before any reading
InitTransform ==
    /\ Constructed
    /\ order \in OrientationConfigs
    /\ probe \in {[raw |-> r, once |-> r, twice |-> r, applied |-> 0] :
                     r \in TransformSamples}
    /\ tally = NoTally
    /\ Unbooted

\* getVirtureMotion6 on the reading, then on its own result
ApplyTransform ==
    /\ probe.applied < 2
    /\ probe' = IF probe.applied = 0
                THEN [probe EXCEPT !.once = getVirtureMotion6(probe.raw, order),
                                   !.applied = 1]
                ELSE [probe EXCEPT !.twice = getVirtureMotion6(probe.once, order),
                                   !.applied = 2]
    /\ UNCHANGED <<action_info, act_info_history, act_info_history_ind, order,
                   last_update_time, encoder_diff, encoder_state, now, op, call,
                   tally, mpu, mpu_cfg, boot>>

NextTransform == ApplyTransform

SpecTransform == InitTransform /\ [][NextTransform]_vars

(***************************************************************************)
(* IMU::init: orientation, connection wait, offsets or self-calibration    *)
(***************************************************************************)
\* the six setters, imu.cpp 76-81: the record's offsets go to the sensor
ApplyOffsets(m, cfg) ==
    [m EXCEPT !.offsets = Offsets(cfg.x_gyro_offset, cfg.y_gyro_offset,
                                  cfg.z_gyro_offset, cfg.x_accel_offset,
                                  cfg.y_accel_offset, cfg.z_accel_offset)]

\* CalibrateAccel(7), CalibrateGyro(7), imu.cpp 86-87: the sensor works out
\* its own accel and gyro offsets and makes them active
Calibrate(m, computed) ==
    [m EXCEPT !.calibrated = TRUE,
              !.offsets = [@ EXCEPT !.x_accel_offset = computed.x_accel_offset,
                                    !.y_accel_offset = computed.y_accel_offset,
                                    !.z_accel_offset = computed.z_accel_offset,
                                    !.x_gyro_offset = computed.x_gyro_offset,
                                    !.y_gyro_offset = computed.y_gyro_offset,
                                    !.z_gyro_offset = computed.z_gyro_offset]]

\* variant: only the gyro offsets are written back to the record
StoreOffsets_GyroOnly(cfg, m) ==
    [cfg EXCEPT !.x_gyro_offset = m.offsets.x_gyro_offset,
                !.y_gyro_offset = m.offsets.y_gyro_offset,
                !.z_gyro_offset = m.offsets.z_gyro_offset]

\* the six getters, imu.cpp 91-96: the sensor's active offsets go to the record
StoreOffsets(cfg, m) ==
    [cfg EXCEPT !.x_gyro_offset = m.offsets.x_gyro_offset,
                !.y_gyro_offset = m.offsets.y_gyro_offset,
                !.z_gyro_offset = m.offsets.z_gyro_offset,
                !.x_accel_offset = m.offsets.x_accel_offset,
                !.y_accel_offset = m.offsets.y_accel_offset,
                !.z_accel_offset = m.offsets.z_accel_offset]

\* the wait at imu.cpp 59-62 ends when testConnection() succeeds (inLoop) or
\* when the timeout has run out
ConnectWaits(inLoop) == IF inLoop THEN {100} ELSE {ConnectTimeout}

\* init(order, auto_calibration, mpu_cfg); inLoop and after are the sensor's
\* answers during the wait and at the test of line 64, computed the offsets
\* a calibration arrives at
init(ord, auto_calibration, inLoop, after, waited, computed) ==
    LET started == [mpu EXCEPT !.initialized = TRUE]
        ready == IF auto_calibration = 0 THEN ApplyOffsets(started, mpu_cfg)
                 ELSE Calibrate(started, computed)
    IN  /\ order' = ord
        /\ now' = now + waited
        /\ mpu' = IF after THEN ready ELSE mpu
        /\ mpu_cfg' = IF after /\ auto_calibration # 0
                      THEN StoreOffsets(mpu_cfg, ready) ELSE mpu_cfg
        /\ boot' = [called |-> TRUE, order |-> ord,
                    auto_calibration |-> auto_calibration,
                    inLoop |-> inLoop, after |-> after, waited |-> waited,
                    cfgBefore |-> mpu_cfg, mpuBefore |-> mpu, computed |-> computed,
                    log |-> <<"setOrder", "testConnection">> \o
                            (IF ~after THEN << >>
                             ELSE <<"initialize">> \o
                                  (IF auto_calibration = 0 THEN <<"setOffsets">>
                                   ELSE <<"Calibrate", "getOffsets">>))]
        /\ op' = "init"
        /\ call' = [call EXCEPT !.nOps = @ + 1, !.entryValid = action_info.isValid,
                                !.elapsed = FALSE, !.tmp = NoTmp, !.freshRun = -1,
                                !.clearedRun = -1]
        /\ UNCHANGED <<action_info, act_info_history, act_info_history_ind,
                       last_update_time, encoder_diff, encoder_state, probe, tally>>

\* the records handed to init() and the offsets a calibration arrives at
SuppliedOffsets == {Offsets(1, 2, 3, 4, 5, 6), Offsets(-10, -20, -30, -40, -50, -60)}
ComputedOffsets == {Offsets(11, 12, 13, 14, 15, 16), Offsets(-32768, 22, 23, 24, 25, 32767)}
AutoCalibrationVals == {0, 1, 255}

InitBoot ==
    /\ Constructed
    /\ order = 0
    /\ probe = NoProbe
    /\ tally = NoTally
    /\ mpu = NoMpu
    /\ mpu_cfg \in SuppliedOffsets
    /\ boot = NoBoot

\* init() once or again, in either orientation, with a sensor that answers
\* or not at each test
NextBoot ==
    /\ call.nOps < MaxBootOps
    /\ \E ord \in OrderVals, auto_calibration \in AutoCalibrationVals,
          inLoop \in BOOLEAN, after \in BOOLEAN, computed \in ComputedOffsets :
          \E waited \in ConnectWaits(inLoop) :
              init(ord, auto_calibration, inLoop, after, waited, computed)

SpecBoot == InitBoot /\ [][NextBoot]_vars

(***************************************************************************)
(* Vocabulary of the properties                                            *)
(***************************************************************************)
\* the slot k positions behind slot i of the ring buffer
Back(i, k) == (i + ACTION_HISTORY_BUF_LEN - k) % ACTION_HISTORY_BUF_LEN

Slots == 0 .. ACTION_HISTORY_BUF_LEN - 1

Sustained == {"GO_FORWORD", "RETURN"}

Instantaneous == ACTIVE_TYPE \ Sustained

\* the threshold cascade as the specification states it, on one virtual sample
Cascade(ax, ay) ==
    IF ay > 4000 THEN "TURN_LEFT"
    ELSE IF ay < -4000 THEN "TURN_RIGHT"
    ELSE IF ay > 1000 \/ ay < -1000 THEN "SHAKE"
    ELSE IF ax > 5000 THEN "UP"
    ELSE IF ax < -5000 THEN "DOWN"
    ELSE IF ax > 1000 \/ ax < -1000 THEN "SHAKE"
    ELSE "UNKNOWN"

EngineCalls == {"update", "getAction"}

\* the last operation was a getAction() that was entered unlatched and latched
\* GO_FORWORD or RETURN
SamplePromoted ==
    /\ op = "getAction"
    /\ ~call.entryValid
    /\ action_info.isValid
    /\ action_info.active \in Sustained

(***************************************************************************)
(* C1: once isValid is true, no update() and no getAction() call makes it  *)
(* false: only the caller's explicit clear does.                           *)
(***************************************************************************)
C1_ValidNeverClearedByEngine ==
    [][(action_info.isValid /\ op' \in EngineCalls) => action_info'.isValid]_vars

\* an update() that passed its interval gate was entered latched and left latched
C1_Witness ==
    op = "update" /\ call.elapsed /\ call.entryValid /\ action_info.isValid

(***************************************************************************)
(* C2: a getAction() or update() call entered with isValid true leaves     *)
(* active, isValid and long_time as they were, whatever it reads.          *)
(***************************************************************************)
C2_LatchedEventUnchanged ==
    [][(action_info.isValid /\ op' \in EngineCalls) =>
           /\ action_info'.active = action_info.active
           /\ action_info'.isValid = action_info.isValid
           /\ action_info'.long_time = action_info.long_time]_vars

\* a latched getAction() classified its reading as another gesture
C2_Witness ==
    /\ op = "getAction"
    /\ call.entryValid
    /\ call.tmp.active \notin {"UNKNOWN", action_info.active}

(***************************************************************************)
(* C3 as stated: from the constructed engine, three getAction() calls in a *)
(* row that read ax = 5500, ay = 0, nothing else in between, end with      *)
(* {GO_FORWORD, isValid, long_time} and with two of the three most recent  *)
(* history slots UNKNOWN.                                                  *)
(***************************************************************************)
RecentUnknown ==
    Cardinality({k \in 0 .. 2 :
        act_info_history[Back(act_info_history_ind, k)] = "UNKNOWN"})

C3_ThreeUpSamplesGoForward ==
    call.freshRun = 3 =>
        /\ action_info.active = "GO_FORWORD"
        /\ action_info.isValid
        /\ action_info.long_time
        /\ RecentUnknown = 2

(***************************************************************************)
(* C3 amended: the three calls end with {GO_FORWORD, isValid, long_time}   *)
(* and two of the three most recent slots UNKNOWN when the caller clears   *)
(* the latch after the first and after the second call; with nothing in    *)
(* between the first call latches UP and the run ends with {UP, isValid,   *)
(* long_time} and no slot reset.                                           *)
(***************************************************************************)
C3_ThreeUpSamplesWithClears ==
    /\ (call.clearedRun = 3 /\ op = "getAction") =>
           /\ action_info.active = "GO_FORWORD"
           /\ action_info.isValid
           /\ action_info.long_time
           /\ RecentUnknown = 2
    /\ call.freshRun = 3 =>
           /\ action_info.active = "UP"
           /\ action_info.isValid
           /\ action_info.long_time
           /\ RecentUnknown = 0

\* the third getAction() of the run with clears has returned
C3_Witness == call.clearedRun = 3 /\ call.nOps = 5 /\ op = "getAction"

(***************************************************************************)
(* C4: a getAction() entered unlatched latches GO_FORWORD exactly when the *)
(* slots index, index-1, index-2 all hold UP after the append, RETURN      *)
(* exactly when all hold DOWN; three equal slots of another kind promote   *)
(* nothing and leave the appended history as it is.                        *)
(***************************************************************************)
C4_PromotionExactlyOnThreeUpOrDown ==
    [][(op' = "getAction" /\ ~action_info.isValid) =>
           LET idx == act_info_history_ind'
               appended == [act_info_history EXCEPT ![idx] = call'.tmp.active]
               All(k) == \A j \in 0 .. 2 : appended[Back(idx, j)] = k
               Latched(k) == action_info'.isValid /\ action_info'.active = k
           IN  /\ Latched("GO_FORWORD") <=> All("UP")
               /\ Latched("RETURN") <=> All("DOWN")
               /\ \A k \in Instantaneous \ {"UP", "DOWN"} :
                      All(k) => /\ act_info_history' = appended
                                /\ ~Latched("GO_FORWORD")
                                /\ ~Latched("RETURN")]_vars

\* an unlatched getAction() promoted three UP slots to GO_FORWORD
C4_Witness ==
    SamplePromoted /\ action_info.active = "GO_FORWORD" /\ call.tmp.active = "UP"

(***************************************************************************)
(* C5: a promoting getAction() resets exactly the slots index-1 and        *)
(* index-2, keeps UP/DOWN in the current slot and leaves the two other     *)
(* slots alone; a getAction() that does not promote changes no slot but    *)
(* the one it writes.                                                      *)
(***************************************************************************)
C5_PromotionClearsTwoOlderSlots ==
    [][op' = "getAction" =>
           LET idx == act_info_history_ind'
               promotes == /\ ~action_info.isValid
                           /\ action_info'.isValid
                           /\ action_info'.active \in Sustained
           IN  IF promotes
               THEN /\ act_info_history'[idx] \in {"UP", "DOWN"}
                    /\ act_info_history'[idx] = call'.tmp.active
                    /\ act_info_history'[Back(idx, 1)] = "UNKNOWN"
                    /\ act_info_history'[Back(idx, 2)] = "UNKNOWN"
                    /\ \A k \in 3 .. ACTION_HISTORY_BUF_LEN - 1 :
                           act_info_history'[Back(idx, k)] = act_info_history[Back(idx, k)]
               ELSE \A i \in Slots \ {idx} :
                        act_info_history'[i] = act_info_history[i]]_vars

\* a promotion happened while a slot outside the window held an older gesture
C5_Witness ==
    /\ SamplePromoted
    /\ \E k \in 3 .. ACTION_HISTORY_BUF_LEN - 1 :
           act_info_history[Back(act_info_history_ind, k)] \notin {"UNKNOWN", "UP", "DOWN"}

(***************************************************************************)
(* C6: the getAction() call that follows a promoting getAction() call      *)
(* never promotes, whatever it reads and whatever ran in between.          *)
(***************************************************************************)
C6_NoPromotionRightAfterPromotion ==
    (op = "getAction" /\ call.prevHold) => ~call.hold /\ ~SamplePromoted

\* after a promotion and a clear, an unlatched getAction() read UP or DOWN again
C6_Witness ==
    /\ op = "getAction"
    /\ call.prevHold
    /\ ~call.entryValid
    /\ call.tmp.active \in {"UP", "DOWN"}

(***************************************************************************)
(* C7: the write index is in 0..4 and has advanced by one slot modulo 5    *)
(* per getAction() call (so it is back at its start after 5 calls); the    *)
(* constructed buffer is all UNKNOWN and the first call writes slot 0.     *)
(***************************************************************************)
C7_IndexAdvancesByOneModFive ==
    /\ act_info_history_ind \in Slots
    /\ act_info_history_ind = (ACTION_HISTORY_BUF_LEN - 1 + call.nSample) % ACTION_HISTORY_BUF_LEN
    /\ call.nSample = 0 => \A i \in Slots : act_info_history[i] = "UNKNOWN"
    /\ (call.nSample = 1 /\ op = "getAction") =>
           /\ act_info_history_ind = 0
           /\ act_info_history[0] = call.tmp.active

\* five getAction() calls were made and the index is back at its starting slot
C7_Witness ==
    call.nSample = ACTION_HISTORY_BUF_LEN /\ act_info_history_ind = ACTION_HISTORY_BUF_LEN - 1

(***************************************************************************)
(* C8 as stated: after each getAction() and after each update() call the   *)
(* write index has advanced and the slot at the new index holds that       *)
(* call's instantaneous classification.                                    *)
(***************************************************************************)
C8_EveryCallAppends ==
    [][op' \in EngineCalls =>
           /\ act_info_history_ind' = Back(act_info_history_ind, ACTION_HISTORY_BUF_LEN - 1)
           /\ act_info_history'[act_info_history_ind'] =
                  IF op' = "getAction" THEN call'.tmp.active
                  ELSE Cascade(action_info'.v_ax, action_info'.v_ay)]_vars

(***************************************************************************)
(* C8 amended: after each getAction() call, latched or not, the slot at    *)
(* the new index holds the instantaneous (never the promoted)              *)
(* classification the call computed; update() appends nothing: it leaves   *)
(* the write index and every slot as they were.                            *)
(***************************************************************************)
C8_OnlyGetActionAppends ==
    [][/\ op' = "getAction" =>
              /\ act_info_history_ind' = Back(act_info_history_ind, ACTION_HISTORY_BUF_LEN - 1)
              /\ act_info_history'[act_info_history_ind'] = call'.tmp.active
              /\ call'.tmp.active \in Instantaneous
       /\ op' = "update" =>
              /\ act_info_history' = act_info_history
              /\ act_info_history_ind' = act_info_history_ind]_vars

\* a latched getAction() still logged the gesture it read
C8_Witness ==
    /\ op = "getAction"
    /\ call.entryValid
    /\ call.tmp.active \notin {"UNKNOWN", action_info.active}
    /\ act_info_history[act_info_history_ind] = call.tmp.active

(***************************************************************************)
(* C9: no history slot ever holds GO_FORWORD or RETURN, and the event      *)
(* becomes GO_FORWORD / RETURN only by a promotion: a getAction() whose    *)
(* reading and two preceding slots are UP / DOWN, or an update() that      *)
(* waited and read ax beyond the linear threshold again.                   *)
(***************************************************************************)
C9_SustainedOnlyByPromotion ==
    /\ \A i \in Slots : act_info_history[i] \in Instantaneous
    /\ [][/\ \A i \in Slots : act_info_history'[i] \in Instantaneous
          /\ \A k \in Sustained :
                 ( /\ action_info'.active = k
                   /\ action_info'.active # action_info.active
                          \/ (~action_info.isValid /\ action_info'.isValid) ) =>
                 LET base == IF k = "GO_FORWORD" THEN "UP" ELSE "DOWN"
                 IN  \/ /\ op' = "getAction"
                        /\ ~action_info.isValid
                        /\ call'.tmp.active = base
                        /\ act_info_history[Back(act_info_history_ind', 1)] = base
                        /\ act_info_history[Back(act_info_history_ind', 2)] = base
                     \/ /\ op' = "update"
                        /\ call'.elapsed
                        /\ ~action_info.isValid
                        /\ now' = now + DelayMs
                        /\ IF k = "GO_FORWORD" THEN action_info'.v_ax > 5000
                                               ELSE action_info'.v_ax < -5000]_vars

\* after a promotion the current slot still holds UP, the event GO_FORWORD
C9_Witness ==
    /\ SamplePromoted
    /\ action_info.active = "GO_FORWORD"
    /\ act_info_history[act_info_history_ind] = "UP"
    /\ act_info_history[Back(act_info_history_ind, 1)] = "UNKNOWN"

(***************************************************************************)
(* C10: the classification getAction() computes is the threshold cascade   *)
(* applied to the virtual sample read in that same call, whatever the      *)
(* engine state before the call.                                           *)
(***************************************************************************)
C10_SampleClassifiesOwnReading ==
    op = "getAction" => call.tmp.active = Cascade(call.tmp.v_ax, call.tmp.v_ay)


\* the last operation was an update() that passed its interval gate and was
\* entered unlatched
PollClassified == op = "update" /\ call.elapsed /\ ~call.entryValid

\* what the cascade of the specification makes of the first reading of the
\* last update()
PollFirstKind == Cascade(call.first.ax, call.first.ay)

\* C11: an update() past its interval and entered unlatched classifies its
\* first reading by the cascade with strict thresholds: ay = 4000 or -4000 is
\* SHAKE, ay = 1000 or -1000 falls through to the ax checks, ax = 5000 or
\* -5000 is SHAKE, and a reading within 1000 on both axes leaves isValid false
C11_PollCascadeStrictBoundaries ==
    PollClassified =>
        /\ PollFirstKind = "UNKNOWN" => ~action_info.isValid
        /\ PollFirstKind = "UP" =>
               action_info.isValid /\ action_info.active \in {"UP", "GO_FORWORD"}
        /\ PollFirstKind = "DOWN" =>
               action_info.isValid /\ action_info.active \in {"DOWN", "RETURN"}
        /\ PollFirstKind \in {"TURN_LEFT", "TURN_RIGHT", "SHAKE"} =>
               action_info.isValid /\ action_info.active = PollFirstKind
        /\ call.first.ay \in {4000, -4000} => action_info.active = "SHAKE"
        /\ (call.first.ay \in {1000, -1000} /\ call.first.ax \in {5000, -5000}) =>
               action_info.active = "SHAKE"
        /\ (call.first.ay \in {1000, -1000} /\ call.first.ax \in {1000, -1000}) =>
               ~action_info.isValid

\* an unlatched update() past its interval read ay = 1000 with ax = 5000 and
\* latched SHAKE
C11_Witness ==
    /\ PollClassified
    /\ call.first.ay = 1000
    /\ call.first.ax = 5000
    /\ action_info.isValid
    /\ action_info.active = "SHAKE"


\* the kind a reading with |ay| > 1000 has, as a function of ay alone
RotationKind(ay) ==
    IF ay > 4000 THEN "TURN_LEFT" ELSE IF ay < -4000 THEN "TURN_RIGHT" ELSE "SHAKE"

\* C12: the rotation axis dominates: a reading with ay > 4000 (ay = 4500) is
\* TURN_LEFT whatever its ax, in getAction() and in update(); whenever
\* |ay| > 1000 the kind depends on ay alone, and update() does not enter the
\* confirmation wait
C12_RotationDominatesLinear ==
    /\ (op = "getAction" /\ (call.tmp.v_ay > 1000 \/ call.tmp.v_ay < -1000)) =>
           call.tmp.active = RotationKind(call.tmp.v_ay)
    /\ (PollClassified /\ (call.first.ay > 1000 \/ call.first.ay < -1000)) =>
           /\ action_info.isValid
           /\ action_info.active = RotationKind(call.first.ay)
           /\ ~call.waited
           /\ action_info.v_ax = call.first.ax
    /\ (op = "update" /\ (call.first.ay > 1000 \/ call.first.ay < -1000)) =>
           ~call.waited

\* an unlatched update() past its interval read ay = 4500 with ax = 5500 and
\* latched TURN_LEFT without waiting
C12_Witness ==
    /\ PollClassified
    /\ call.first.ay = 4500
    /\ call.first.ax = 5500
    /\ action_info.active = "TURN_LEFT"
    /\ ~call.waited
    /\ now = last_update_time


\* negation of a signed 16-bit value
Negated(x) == IF x = -32768 THEN -32768 ELSE 0 - x

\* the configs with the invert-X, invert-Y, invert-Z and swap-XY flag
InvertXConfigs == {1, 3, 5, 7, 9, 11, 13, 15}
InvertYConfigs == {2, 3, 6, 7, 10, 11, 14, 15}
InvertZConfigs == {4, 5, 6, 7, 12, 13, 14, 15}
SwapXYConfigs == 8 .. 15

\* the reference transform, axis by axis
Reference(r, c) ==
    LET nax == IF c \in InvertXConfigs THEN Negated(r.ax) ELSE r.ax
        ngx == IF c \in InvertXConfigs THEN Negated(r.gx) ELSE r.gx
        nay == IF c \in InvertYConfigs THEN Negated(r.ay) ELSE r.ay
        ngy == IF c \in InvertYConfigs THEN Negated(r.gy) ELSE r.gy
    IN  [ax |-> IF c \in SwapXYConfigs THEN nay ELSE nax,
         ay |-> IF c \in SwapXYConfigs THEN nax ELSE nay,
         az |-> IF c \in InvertZConfigs THEN Negated(r.az) ELSE r.az,
         gx |-> IF c \in SwapXYConfigs THEN ngy ELSE ngx,
         gy |-> IF c \in SwapXYConfigs THEN ngx ELSE ngy,
         gz |-> IF c \in InvertZConfigs THEN Negated(r.gz) ELSE r.gz]

\* C13: for each of the 16 configs getVirtureMotion6 equals the reference:
\* X, Y, Z negated by their invert flags, then X and Y (accel and gyro)
\* exchanged by swap-XY, so that with swap-XY the output ax is the possibly
\* negated raw ay and the output ay the possibly negated raw ax; az and gz
\* depend on invert-Z only; config 0 is the identity
C13_TransformEqualsReference ==
    probe.applied >= 1 =>
        /\ probe.once = Reference(probe.raw, order)
        /\ order = 0 => probe.once = probe.raw
        /\ order \in SwapXYConfigs =>
               /\ probe.once.ax \in {probe.raw.ay, Negated(probe.raw.ay)}
               /\ probe.once.ay \in {probe.raw.ax, Negated(probe.raw.ax)}
        /\ order \notin InvertZConfigs =>
               probe.once.az = probe.raw.az /\ probe.once.gz = probe.raw.gz

\* swap-XY with invert-X only, on a reading that tells the axes apart: the
\* output ay is the negated raw ax and the output ax the raw ay
C13_Witness ==
    /\ probe.applied = 1
    /\ order = 9
    /\ probe.raw.ax = 5500
    /\ probe.raw.ay = -4500
    /\ probe.once.ax = -4500
    /\ probe.once.ay = -5500
    /\ probe.raw.gy = 19
    /\ probe.once.gx = 19

\* C14 as stated: for each of the 16 configs, getVirtureMotion6 applied twice
\* returns the original sample
C14_TransformTwiceIsIdentity ==
    probe.applied = 2 => probe.twice = probe.raw

\* the configs with swap-XY and exactly one of invert-X, invert-Y
SkewConfigs == {9, 10, 13, 14}

\* C14, amended: getVirtureMotion6 applied twice returns the original sample
\* in the 12 configs where swap-XY is clear or invert-X equals invert-Y; in
\* the configs 9, 10, 13, 14 it returns the sample with X and Y negated
\* (accel and gyro) and Z restored
C14_TransformTwiceIdentityOrNegatedXY ==
    probe.applied = 2 =>
        IF order \in SkewConfigs
        THEN probe.twice = [probe.raw EXCEPT !.ax = Negated(@), !.ay = Negated(@),
                                             !.gx = Negated(@), !.gy = Negated(@)]
        ELSE probe.twice = probe.raw

\* swap-XY with invert-X only, applied twice to ax = 5500, ay = -4500
C14_Witness ==
    /\ probe.applied = 2
    /\ order = 9
    /\ probe.raw.ax = 5500
    /\ probe.raw.ay = -4500
    /\ probe.twice.ax = -5500
    /\ probe.twice.ay = 4500


\* C15: an update(interval) called when now - last_update_time <= interval
\* changes neither the kind nor isValid of the event, nor encoder_diff,
\* encoder_state or last_update_time, whatever the sensor reads
C15_NonElapsedPollIsNoOp ==
    [][(op' = "update" /\ now - last_update_time <= call'.interval) =>
           /\ action_info'.active = action_info.active
           /\ action_info'.isValid = action_info.isValid
           /\ action_info'.long_time = action_info.long_time
           /\ encoder_diff' = encoder_diff
           /\ encoder_state' = encoder_state
           /\ last_update_time' = last_update_time]_vars

\* ay = 4500 polled a second time within 50 ms, the latch cleared in between:
\* the event stays an unlatched TURN_LEFT and the counter stays at -1
C15_Witness ==
    /\ op = "update"
    /\ call.interval = 50
    /\ now - last_update_time <= call.interval
    /\ ~call.entryValid
    /\ call.first.ay = 4500
    /\ action_info.active = "TURN_LEFT"
    /\ ~action_info.isValid
    /\ encoder_diff = -1


\* C16 as stated: an update(interval) called when now - last_update_time <=
\* interval does not read the sensor, and the virtual sample stored in
\* action_info is unchanged
C16_NonElapsedPollKeepsSample ==
    [][(op' = "update" /\ now - last_update_time <= call'.interval) =>
           /\ action_info'.v_ax = action_info.v_ax
           /\ action_info'.v_ay = action_info.v_ay]_vars

\* C16, amended: update() reads the sensor on every call, before the interval
\* test: after an update(interval) called when now - last_update_time <=
\* interval, action_info holds the virtual sample of the reading of that call
C16_NonElapsedPollStoresSample ==
    [][(op' = "update" /\ now - last_update_time <= call'.interval) =>
           /\ action_info'.v_ax = call'.first.ax
           /\ action_info'.v_ay = call'.first.ay]_vars

\* the first operation on the constructed engine is an update(50) at time 0
\* reading ay = 4500: nothing is classified and v_ay is 4500
C16_Witness ==
    /\ op = "update"
    /\ call.nOps = 1
    /\ call.interval = 50
    /\ now - last_update_time <= call.interval
    /\ call.first.ay = 4500
    /\ action_info.v_ay = 4500
    /\ action_info.active = "UNKNOWN"
    /\ ~action_info.isValid


\* C17 as stated: update(interval) assigns last_update_time exactly when
\* now - last_update_time > interval at entry (equality does not count),
\* latched or not, the value stored being the time at the end of the call,
\* after any confirmation wait; every other call leaves it unchanged
C17_LastUpdateAssignedIffElapsed ==
    [][op' = "update" =>
           IF now - last_update_time > call'.interval
           THEN last_update_time' = now'
           ELSE last_update_time' = last_update_time]_vars


\* C18: an unlatched update() past its interval whose first reading has
\* |ay| <= 1000 and ax > 5000 waits 500 ms and reads once more; it latches
\* GO_FORWORD and sets encoder_state to pressed iff the second reading has
\* ax > 5000 too, and otherwise latches UP and leaves encoder_state alone;
\* ax < -5000 gives RETURN and released, or DOWN, in the same way; the ay of
\* the second reading is not looked at
C18_PollConfirmsLinearMotion ==
    [][(/\ op' = "update" /\ call'.elapsed /\ ~call'.entryValid
        /\ call'.first.ay <= 1000 /\ call'.first.ay >= -1000) =>
           /\ call'.first.ax > 5000 =>
                  /\ call'.waited /\ now' = now + 500
                  /\ action_info'.isValid
                  /\ encoder_diff' = encoder_diff
                  /\ IF action_info'.v_ax > 5000
                     THEN action_info'.active = "GO_FORWORD" /\ encoder_state' = "PR"
                     ELSE action_info'.active = "UP" /\ encoder_state' = encoder_state
           /\ call'.first.ax < -5000 =>
                  /\ call'.waited /\ now' = now + 500
                  /\ action_info'.isValid
                  /\ encoder_diff' = encoder_diff
                  /\ IF action_info'.v_ax < -5000
                     THEN action_info'.active = "RETURN" /\ encoder_state' = "REL"
                     ELSE action_info'.active = "DOWN" /\ encoder_state' = encoder_state
           /\ (call'.first.ax <= 5000 /\ call'.first.ax >= -5000) =>
                  ~call'.waited /\ now' = now]_vars

\* first reading ax = 5500, second reading ax = 5500 with ay = 4500: the call
\* latched GO_FORWORD, pressed, and the counter did not move
C18_Witness ==
    /\ PollClassified
    /\ call.waited
    /\ call.first.ax = 5500
    /\ call.first.ay = 1000
    /\ action_info.v_ax = 5500
    /\ action_info.v_ay = 4500
    /\ action_info.active = "GO_FORWORD"
    /\ action_info.isValid
    /\ encoder_state = "PR"
    /\ encoder_diff = 0


\* the step is an update() that latches a gesture
PollLatches ==
    op' = "update" /\ call'.elapsed /\ ~call'.entryValid /\ action_info'.isValid

\* C19: an update() that latches a gesture moves encoder_diff by -1 for
\* TURN_LEFT, +1 for TURN_RIGHT, -1 for a SHAKE found on ay, and not at all
\* for a SHAKE found on ax, UP, DOWN, GO_FORWORD and RETURN; an update() that
\* latches nothing leaves it unchanged, so it moves by at most 1 per call
C19_EncoderDiffFollowsRotation ==
    [][op' = "update" =>
           /\ encoder_diff' - encoder_diff \in {-1, 0, 1}
           /\ encoder_diff' - encoder_diff =
                  IF ~PollLatches THEN 0
                  ELSE IF action_info'.active = "TURN_LEFT" THEN -1
                  ELSE IF action_info'.active = "TURN_RIGHT" THEN 1
                  ELSE IF /\ action_info'.active = "SHAKE"
                          /\ (call'.first.ay > 1000 \/ call'.first.ay < -1000)
                  THEN -1
                  ELSE 0]_vars

\* the first update() past its interval read ay = 2000: SHAKE, counter at -1
C19_Witness ==
    /\ PollClassified
    /\ call.nOps = 2
    /\ call.first.ay = 2000
    /\ action_info.isValid
    /\ action_info.active = "SHAKE"
    /\ encoder_diff = -1


\* the step is a call that latches an event
CallLatches ==
    op' \in EngineCalls /\ ~action_info.isValid /\ action_info'.isValid

\* C20 as stated: after any call, update() or getAction(), that latches
\* GO_FORWORD encoder_state is pressed, after any call that latches RETURN it
\* is released, and a call that latches another kind leaves it unchanged
C20_PressLatchFollowsEitherPromotion ==
    [][CallLatches =>
           IF action_info'.active = "GO_FORWORD" THEN encoder_state' = "PR"
           ELSE IF action_info'.active = "RETURN" THEN encoder_state' = "REL"
           ELSE encoder_state' = encoder_state]_vars

\* C20, amended: only the confirmation path of update() moves encoder_state:
\* an update() that latches GO_FORWORD leaves it pressed, one that latches
\* RETURN leaves it released, one that latches another kind leaves it
\* unchanged; getAction() never changes it, also when it promotes to
\* GO_FORWORD or RETURN
C20_PressLatchFollowsPollOnly ==
    [][/\ (CallLatches /\ op' = "update") =>
              IF action_info'.active = "GO_FORWORD" THEN encoder_state' = "PR"
              ELSE IF action_info'.active = "RETURN" THEN encoder_state' = "REL"
              ELSE encoder_state' = encoder_state
       /\ op' = "getAction" => encoder_state' = encoder_state]_vars

\* a getAction() promoted three UP samples to GO_FORWORD and encoder_state is
\* still released
C20_Witness ==
    /\ op = "getAction"
    /\ call.hold
    /\ ~call.entryValid
    /\ action_info.isValid
    /\ action_info.active = "GO_FORWORD"
    /\ encoder_state = "REL"


\* both axes of a reading are within the shake threshold
AtRest(ax, ay) == ax <= 1000 /\ ax >= -1000 /\ ay <= 1000 /\ ay >= -1000

\* C21 as stated: a getAction() or an update() past its interval, entered
\* unlatched on a reading with every axis within the thresholds, leaves
\* isValid false and changes neither encoder_diff nor encoder_state
C21_RestReadingLatchesNothing ==
    [][(\/ /\ op' = "getAction" /\ ~action_info.isValid
           /\ AtRest(call'.tmp.v_ax, call'.tmp.v_ay)
        \/ /\ op' = "update" /\ call'.elapsed /\ ~action_info.isValid
           /\ AtRest(call'.first.ax, call'.first.ay)) =>
           /\ ~action_info'.isValid
           /\ encoder_diff' = encoder_diff
           /\ encoder_state' = encoder_state]_vars


\* C22: in every state reached by update(), getAction() and caller clears, a
\* latched event (isValid true) has a kind other than UNKNOWN
C22_ValidImpliesKnownKind ==
    action_info.isValid => action_info.active # "UNKNOWN"

\* a getAction() entered unlatched latched the SHAKE it classified
C22_Witness ==
    /\ op = "getAction"
    /\ ~call.entryValid
    /\ call.tmp.active = "SHAKE"
    /\ action_info.isValid
    /\ action_info.active = "SHAKE"


\* the last operation was a getAction() that promoted
Promoted == op = "getAction" /\ call.hold

\* C23: in a run, from construction, of getAction() calls that all read UP
\* (or all read DOWN), the caller clearing the latch before every call, the
\* promotion fires on the 3rd call and then on every second call (5th, 7th),
\* never on two calls in a row
C23_PromotionEverySecondCall ==
    /\ (op = "getAction" /\ call.clearedRun >= 1) =>
           /\ call.hold <=> (call.clearedRun >= 3 /\ call.clearedRun % 2 = 1)
           /\ call.hold => action_info.active = "GO_FORWORD"
           /\ ~(call.hold /\ call.prevHold)
    /\ (op = "getAction" /\ tally.downRun >= 1) =>
           /\ call.hold <=> (tally.downRun >= 3 /\ tally.downRun % 2 = 1)
           /\ call.hold => action_info.active = "RETURN"
           /\ ~(call.hold /\ call.prevHold)

\* the 7th call of such a run of UP readings promoted, for the third time
C23_Witness ==
    /\ Promoted
    /\ call.clearedRun = 7
    /\ call.nSample = 7
    /\ tally.clears = 6
    /\ action_info.active = "GO_FORWORD"


\* the classification c was recorded by a getAction() call entered latched
LatchedRecord(c, kind) == c.kind = kind /\ c.latched

\* C24: a getAction() entered latched records its classification in the
\* history and neither promotes nor resets a slot; so one getAction() reading
\* UP right after the caller cleared the latch promotes to GO_FORWORD at once
\* when the two getAction() calls before it, both latched, recorded UP
C24_LatchedSamplesFeedPromotion ==
    [][op' = "getAction" =>
           /\ action_info.isValid =>
                  /\ act_info_history' =
                         [act_info_history EXCEPT
                             ![act_info_history_ind'] = call'.tmp.active]
                  /\ ~call'.hold
                  /\ action_info'.active = action_info.active
                  /\ action_info'.isValid
           /\ (/\ op = "clear"
               /\ call'.tmp.active = "UP"
               /\ LatchedRecord(tally.recent[2], "UP")
               /\ LatchedRecord(tally.recent[3], "UP")) =>
                  /\ call'.hold
                  /\ action_info'.isValid
                  /\ action_info'.active = "GO_FORWORD"]_vars

\* two latched getAction() calls recorded UP, the caller cleared, and the
\* next getAction() reading UP promoted
C24_Witness ==
    /\ Promoted
    /\ action_info.active = "GO_FORWORD"
    /\ LatchedRecord(tally.recent[1], "UP")
    /\ LatchedRecord(tally.recent[2], "UP")
    /\ tally.recent[3] = [kind |-> "UP", latched |-> FALSE]
    /\ tally.clears = 1


\* the classifications of the last three getAction() calls are all kind
RecentAll(kind) == \A i \in 1 .. 3 : tally.recent[i].kind = kind

\* C25: a getAction() that sets the kind to GO_FORWORD (RETURN) classified UP
\* (DOWN), and so did the two getAction() calls right before it; the first
\* two getAction() calls after construction never promote, and what older
\* calls recorded does not count
C25_PromotionNeedsThreeFreshSamples ==
    Promoted =>
        /\ call.nSample >= 3
        /\ action_info.active \in {"GO_FORWORD", "RETURN"}
        /\ action_info.active = "GO_FORWORD" => RecentAll("UP")
        /\ action_info.active = "RETURN" => RecentAll("DOWN")

\* the third getAction() after construction promoted three DOWN to RETURN
C25_Witness ==
    /\ Promoted
    /\ call.nSample = 3
    /\ action_info.active = "RETURN"
    /\ RecentAll("DOWN")


\* C26: getAction() never changes encoder_diff, encoder_state or
\* last_update_time, and update() never changes a slot of the history or the
\* write index
C26_EntryPointsTouchDisjointState ==
    [][/\ op' = "getAction" =>
              /\ encoder_diff' = encoder_diff
              /\ encoder_state' = encoder_state
              /\ last_update_time' = last_update_time
       /\ op' = "update" =>
              /\ act_info_history' = act_info_history
              /\ act_info_history_ind' = act_info_history_ind]_vars

\* a getAction() latched UP after an update() had moved the counter and
\* last_update_time, and both are as that update() left them
C26_Witness ==
    /\ op = "getAction"
    /\ ~call.entryValid
    /\ action_info.isValid
    /\ action_info.active = "UP"
    /\ encoder_state = "REL"
    /\ encoder_diff = -1
    /\ last_update_time = 30


\* C27: over any sequence of update() and getAction() calls, the number of
\* calls that change encoder_diff and the number of calls that change the
\* kind of the event are each at most one plus the number of caller clears;
\* without a clear the counter changes at most once and the kind first
\* latched stays
C27_ChangesBoundedByClears ==
    /\ tally.encChanges <= 1 + tally.clears
    /\ tally.kindChanges <= 1 + tally.clears
    /\ tally.clears = 0 => (tally.encChanges <= 1 /\ tally.kindChanges <= 1)

\* one clear, two turns latched by update(): the counter and the kind have
\* each changed twice
C27_Witness ==
    /\ op = "update"
    /\ tally.clears = 1
    /\ tally.encChanges = 2
    /\ tally.kindChanges = 2
    /\ action_info.active = "TURN_RIGHT"
    /\ encoder_diff = 0


\* C28: an update() goes through delay(500) at most once, and exactly when
\* its interval has elapsed, it was entered unlatched and its first reading
\* has |ay| <= 1000 and |ax| > 5000; the wait then runs its 500 ms, one more
\* reading is stored and the call ends with a latched event and
\* last_update_time set; otherwise the call takes no time
C28_PollWaitsOnceAndEnds ==
    [][op' = "update" =>
           /\ call'.waited <=>
                  /\ call'.elapsed
                  /\ ~action_info.isValid
                  /\ call'.first.ay <= 1000 /\ call'.first.ay >= -1000
                  /\ (call'.first.ax > 5000 \/ call'.first.ax < -5000)
           /\ now' = IF call'.waited THEN now + 500 ELSE now
           /\ call'.waited =>
                  /\ action_info'.isValid
                  /\ action_info'.active \in {"UP", "GO_FORWORD", "DOWN", "RETURN"}
                  /\ last_update_time' = now'
           /\ ~call'.waited =>
                  /\ action_info'.v_ax = call'.first.ax
                  /\ action_info'.v_ay = call'.first.ay]_vars

\* an update() read ax = -5500, waited, read ax = -5000 and ended 500 ms
\* later with DOWN latched
C28_Witness ==
    /\ op = "update"
    /\ call.waited
    /\ call.first.ax = -5500
    /\ action_info.v_ax = -5000
    /\ action_info.isValid
    /\ action_info.active = "DOWN"
    /\ last_update_time = now


\* the kind an unlatched update() past its interval gives a virtual sample
\* before its confirmation step
PollBaseKind(ax, ay) ==
    LET a0  == [action_info EXCEPT !.isValid = FALSE, !.v_ax = ax, !.v_ay = ay]
        rot == UpdateRotation(a0, 0).a
        lin == UpdateLinear(rot, "REL", Raw(0, 0)).a
    IN  IF rot.isValid THEN rot.active
        ELSE IF rot.v_ax > LinearThreshold THEN "UP"
        ELSE IF rot.v_ax < -LinearThreshold THEN "DOWN"
        ELSE IF lin.isValid THEN lin.active
        ELSE "UNKNOWN"

\* C29 as stated: whatever calls came before, the kind a getAction() appends
\* to the history for a virtual sample is the kind an unlatched update() past
\* its interval gives the same sample before its confirmation step
C29_SampleAndPollAgreeOnBaseKind ==
    op = "getAction" =>
        /\ call.tmp.active = PollBaseKind(call.tmp.v_ax, call.tmp.v_ay)
        /\ act_info_history[act_info_history_ind] =
               PollBaseKind(call.tmp.v_ax, call.tmp.v_ay)


Mirror(kind) ==
    CASE kind = "TURN_LEFT" -> "TURN_RIGHT"
      [] kind = "TURN_RIGHT" -> "TURN_LEFT"
      [] kind = "UP" -> "DOWN"
      [] kind = "DOWN" -> "UP"
      [] OTHER -> kind

\* the output accel and gyro fields that carry the raw X and the raw Y axis
OutX(s, c) == IF c \in SwapXYConfigs THEN [a |-> s.ay, g |-> s.gy]
                                     ELSE [a |-> s.ax, g |-> s.gx]
OutY(s, c) == IF c \in SwapXYConfigs THEN [a |-> s.ax, g |-> s.gx]
                                     ELSE [a |-> s.ay, g |-> s.gy]

\* C31 as stated: with an invert flag set the virtual value of that axis is
\* the arithmetic negation of the raw value for every signed 16-bit reading,
\* -32768 included, so that (without swap-XY) invert-Y turns the rotation kind
\* of the raw ay into its mirror image and invert-X the UP/DOWN kind of the
\* raw ax into its mirror image
C31_InvertIsArithmeticNegation ==
    probe.applied >= 1 =>
        /\ order \in InvertXConfigs =>
               /\ OutX(probe.once, order).a = 0 - probe.raw.ax
               /\ OutX(probe.once, order).g = 0 - probe.raw.gx
        /\ order \in InvertYConfigs =>
               /\ OutY(probe.once, order).a = 0 - probe.raw.ay
               /\ OutY(probe.once, order).g = 0 - probe.raw.gy
        /\ order \in InvertZConfigs =>
               /\ probe.once.az = 0 - probe.raw.az
               /\ probe.once.gz = 0 - probe.raw.gz
        /\ order \in InvertYConfigs \ SwapXYConfigs =>
               GetActionRotation(probe.once.ay) =
                   Mirror(GetActionRotation(probe.raw.ay))
        /\ order \in InvertXConfigs \ SwapXYConfigs =>
               GetActionLinear(probe.once.ax, probe.once.ax) =
                   Mirror(GetActionLinear(probe.raw.ax, probe.raw.ax))


\* the other order of the two steps: X and Y (accel and gyro) exchanged first
\* under swap-XY, then the X, Y and Z fields of the result negated under
\* their invert flags
SwapThenInvert(r, c) ==
    LET sax == IF c \in SwapXYConfigs THEN r.ay ELSE r.ax
        say == IF c \in SwapXYConfigs THEN r.ax ELSE r.ay
        sgx == IF c \in SwapXYConfigs THEN r.gy ELSE r.gx
        sgy == IF c \in SwapXYConfigs THEN r.gx ELSE r.gy
    IN  [ax |-> IF c \in InvertXConfigs THEN Negated(sax) ELSE sax,
         ay |-> IF c \in InvertYConfigs THEN Negated(say) ELSE say,
         az |-> IF c \in InvertZConfigs THEN Negated(r.az) ELSE r.az,
         gx |-> IF c \in InvertXConfigs THEN Negated(sgx) ELSE sgx,
         gy |-> IF c \in InvertYConfigs THEN Negated(sgy) ELSE sgy,
         gz |-> IF c \in InvertZConfigs THEN Negated(r.gz) ELSE r.gz]

\* the configs with swap-XY and invert-X, invert-Y or both, and those of
\* them with both
SwapInvertConfigs == SwapXYConfigs \cap (InvertXConfigs \cup InvertYConfigs)
SwapBothInvertConfigs == SwapXYConfigs \cap InvertXConfigs \cap InvertYConfigs

\* some X or Y value of the reading changes under 16-bit negation
SignedXY(r) == \E v \in {r.ax, r.ay, r.gx, r.gy} : Negated(v) # v

\* C32 as stated: for every config with swap-XY and invert-X, invert-Y or
\* both there is a sample on which the implemented invert-then-swap differs
\* from swap-then-invert
C32_ReorderChangesEverySwapInvertConfig ==
    (probe.applied >= 1 /\ order \in SwapInvertConfigs) =>
        \E r \in TransformSamples :
            getVirtureMotion6(r, order) # SwapThenInvert(r, order)

\* C32 amended: with swap-XY and exactly one of invert-X, invert-Y
\* (9, 10, 13, 14) the implemented invert-then-swap differs from
\* swap-then-invert on every sample that has an X or Y value which negation
\* changes; with swap-XY and both invert-X and invert-Y (11, 15), and in every
\* config without swap-XY, the two orders give the same output on every sample
C32_ReorderChangesExactlySkewConfigs ==
    probe.applied >= 1 =>
        /\ order \in SkewConfigs =>
               /\ SignedXY(probe.raw) =>
                      probe.once # SwapThenInvert(probe.raw, order)
               /\ \E r \in TransformSamples :
                      getVirtureMotion6(r, order) # SwapThenInvert(r, order)
        /\ order \notin SkewConfigs =>
               /\ probe.once = SwapThenInvert(probe.raw, order)
               /\ \A r \in TransformSamples :
                      getVirtureMotion6(r, order) = SwapThenInvert(r, order)
        /\ SwapInvertConfigs = SkewConfigs \cup SwapBothInvertConfigs

\* swap-XY with invert-X only on a reading that tells the axes apart: the
\* implemented order gives (ay, -ax), the other order (-ay, ax)
C32_Witness ==
    /\ probe.applied = 1
    /\ order = 9
    /\ probe.raw.ax = 5500 /\ probe.raw.ay = -4500
    /\ probe.once.ax = -4500 /\ probe.once.ay = -5500
    /\ SwapThenInvert(probe.raw, order).ax = 4500
    /\ SwapThenInvert(probe.raw, order).ay = 5500


\* the six fields of a calibration record
OffsetFields == {"x_gyro_offset", "y_gyro_offset", "z_gyro_offset",
                 "x_accel_offset", "y_accel_offset", "z_accel_offset"}

\* C33: init() stores the orientation config first and in every case; when
\* the sensor does not answer (the wait ran out and the test after it failed,
\* and whenever that test fails) it returns with the sensor and the
\* calibration record as they were; when the sensor answers, with
\* auto_calibration = 0 the six offsets of the record are the sensor's active
\* offsets and the record is unchanged, and with auto_calibration # 0 each of
\* the six fields of the record holds the offset the sensor computed
C33_InitStoresOrderThenOffsets ==
    op = "init" =>
        /\ order = boot.order
        /\ Head(boot.log) = "setOrder"
        /\ (~boot.inLoop /\ ~boot.after) =>
               /\ boot.waited = ConnectTimeout
               /\ boot.log = <<"setOrder", "testConnection">>
        /\ ~boot.after =>
               /\ mpu = boot.mpuBefore
               /\ mpu_cfg = boot.cfgBefore
        /\ (boot.after /\ boot.auto_calibration = 0) =>
               /\ mpu.initialized
               /\ mpu.calibrated = boot.mpuBefore.calibrated
               /\ \A f \in OffsetFields : mpu.offsets[f] = boot.cfgBefore[f]
               /\ mpu_cfg = boot.cfgBefore
        /\ (boot.after /\ boot.auto_calibration # 0) =>
               /\ mpu.initialized /\ mpu.calibrated
               /\ \A f \in OffsetFields :
                      /\ mpu_cfg[f] = boot.computed[f]
                      /\ mpu.offsets[f] = boot.computed[f]

\* an init() in the swapped orientation with auto_calibration = 255 on a
\* sensor that answered: the record handed in held 1 .. 6 and now holds the
\* computed 11 .. 16
C33_Witness ==
    /\ op = "init"
    /\ boot.after /\ boot.auto_calibration = 255
    /\ order = 8
    /\ boot.cfgBefore = Offsets(1, 2, 3, 4, 5, 6)
    /\ mpu_cfg = Offsets(11, 12, 13, 14, 15, 16)
    /\ mpu.offsets = mpu_cfg

====
